---- MODULE Spec2Model ----
(***************************************************************************)
(* Streaming session coordinator of Exkryptt/ai-receptionistv2.            *)
(*                                                                         *)
(* The repository holds several variants of one websocket connection       *)
(* handler.  A process runs exactly one of them; `handler` says which:     *)
(*   "session"  src/unnamed/part_001 lines 315-447 (sessions Map, queue)   *)
(*   "dg"       src/server.js        lines 55-149  (Deepgram, closed flag) *)
(*   "aa"       src/server.js        lines 435-536 (AssemblyAI, pending)   *)
(*   "buf"      src/unnamed/part_002 lines 94-187  (AssemblyAI, aaReady)   *)
(*   "rt"       src/server.js        lines 261-338 (RealtimeService)       *)
(*   "flag"     src/unnamed/part_003 lines 278-359 (streamClosed flag)     *)
(*   "stream"   src/unnamed/part_001 lines 83-197  (stop frame logged)     *)
(*   "throttle" src/unnamed/part_003 lines 62-207  (one frame a second)    *)
(* The variables hold the state of one connection; a second connection of  *)
(* the session handler is kept in `other` and takes its turn through       *)
(* Switch.  Strings are sequences of one-character strings; media frames   *)
(* are numbered in arrival order (frame k is the k-th media frame of the   *)
(* call), a reply's audio by its utterance number, and a chunk of a        *)
(* streamed reply by its utterance number and its place in the reply.      *)
(***************************************************************************)
EXTENDS Integers, Sequences, FiniteSets, TLC

\* ------------------------------------------------------------------ bounds
\* final utterances of one call (lifecycle regime)
MaxFinals == 1
\* final utterances of one call (concurrent-replies regime)
MaxReplies == 3
\* media frames of one call
MaxFrames == 3
\* final utterances of one call (sequential regime, long enough for history)
MaxTurns == 22
\* generation failures in the sequential regime
MaxGenFails == 1
\* recognition events of one utterance in the transcript regime
MaxUttEvents == 4
\* final utterances of the session handler in the transcript regime
MaxDeltaFinals == 1
\* steps of the clock in one call of the throttling handler
MaxTicks == 3
\* frames with nothing to forward in the malformed-frames regime
MaxJunk == 2
\* media frames of each connection in the two-connection regime
MaxPairFrames == 1
\* final utterances of each connection in the two-connection regime
MaxPairFinals == 1
\* final utterances of one call in the paced regime
MaxPaceReplies == 2
\* steps of the clock in the paced regime
MaxPaceTicks == 5
\* chunks of one streamed synthesis
MaxChunks == 2
\* final utterances of one call in the streamed-replies regime
MaxChunkFinals == 2

\* chatHistory cap: if (session.chatHistory.length > 40)
HistoryCap == 40

\* ----------------------------------------------------------------- strings
EmptyStr == << >>

\* String.prototype.startsWith
StartsWith(t, p) ==
  /\ Len(p) <= Len(t)
  /\ SubSeq(t, 1, Len(p)) = p

\* String.prototype.slice(n), 0 <= n
Slice(t, n) == SubSeq(t, n + 1, Len(t))

RECURSIVE TrimStart(_)
TrimStart(t) ==
  IF t # << >> /\ Head(t) = " " THEN TrimStart(Tail(t)) ELSE t

RECURSIVE TrimEnd(_)
TrimEnd(t) ==
  IF t # << >> /\ t[Len(t)] = " " THEN TrimEnd(SubSeq(t, 1, Len(t) - 1)) ELSE t

\* String.prototype.trim
Trim(t) == TrimEnd(TrimStart(t))

RECURSIVE Concat(_)
Concat(ss) == IF ss = << >> THEN << >> ELSE Head(ss) \o Concat(Tail(ss))

\* the sequence 1, 2, ..., n
Upto(n) == [k \in 1..n |-> k]

IsPrefix(p, t) == StartsWith(t, p)

\* ------------------------------------------------------------ environment
hel == <<"h", "e", "l">>
hello == hel \o <<"l", "o">>
helloHow == hello \o <<" ", "h", "o", "w">>
helloHowAreYou == helloHow \o <<" ", "a", "r", "e", " ", "y", "o", "u">>
hiSp == <<"h", "i", " ">>

\* transcripts of the concurrent and sequential regimes
Words == {<<"a">>}
\* transcripts of the transcript regime ("" is an event without text)
Phrases == {EmptyStr, hel, hello, helloHow, helloHowAreYou, hiSp}

VARIABLES
  handler,        \* which connection handler this process runs
  crashed,        \* an exception left a callback uncaught: the process is gone
  ws,             \* the transport connection (ws / twilioWs)
  dg,             \* the Deepgram live stream (external object)
  aaWs,           \* the AssemblyAI websocket (external object)
  received,       \* number of media frames that arrived on the connection
  lost,           \* media frames that were neither forwarded nor buffered
  triggers,       \* number of teardown triggers handled so far
  session,        \* part_001: the session object
  sessions,       \* part_001: keys of the sessions Map
  tasks,          \* one async transcript callback per final utterance
  dgStream,       \* server.js 58: let dgStream
  closed,         \* server.js 59: let closed
  lastTranscript, \* server.js 85: let lastTranscript
  pendingAudio,   \* server.js 439
  buffer,         \* part_002 103
  aaReady,        \* part_002 104
  openedAt,       \* number of frames received when 'open' fired, -1 before
  heard,          \* recognition events of the current utterance
  deltas,         \* deltas computed for the current utterance
  startLast,      \* stored last transcript when the current utterance began
  uttDone,        \* the current utterance has had its is_final event
  active,         \* the connection whose state the variables above hold
  other,          \* part_001: the state of the second connection
  ready,          \* server.js 270: const ready = transcriber.connect()
  waiting,        \* server.js 322: media callbacks suspended at await ready
  rejected,       \* a promise rejection left an async callback unhandled
  junk,           \* number of frames the message callback had nothing to do for
  now,            \* part_003 101: Date.now()
  lastSentTimestamp, \* part_003 93
  streamClosed,   \* part_003 282
  timers,         \* part_001 406: the setTimeout callbacks not yet run
  chain           \* the sends chained on session.queue, and when each ran

envVars == <<ws, dg, aaWs, received, lost, triggers, openedAt>>
sessVars == <<session, sessions, tasks>>
dgVars == <<dgStream, closed, lastTranscript>>
aaVars == <<pendingAudio, buffer, aaReady>>
trkVars == <<heard, deltas, startLast, uttDone>>
\* the second connection, and the state of the rt, flag and throttle handlers
extVars == <<active, other, ready, waiting, rejected, junk, now,
             lastSentTimestamp, streamClosed>>
\* the delay timers of the reply queue
paceVars == <<timers, chain>>
vars == <<handler, crashed, envVars, sessVars, dgVars, aaVars, trkVars, extVars,
          paceVars>>

SystemTurn == [role |-> "system", utt |-> 0]

Handlers == {"session", "dg", "aa", "buf", "rt", "flag", "stream", "throttle"}

\* Date.now() when the connection is accepted: far beyond one throttle
\* interval after the epoch
StartTime == 1000000

\* the transport connection as the handler is handed it
InitWs == [readyState |-> "OPEN", sent |-> << >>, stopped |-> FALSE]

\* the recognition stream while listen.live() is pending
InitDg == [state |-> "pending", recv |-> << >>, finishCalls |-> 0,
           late |-> 0, errored |-> FALSE]

\* part_001 320: queue: Promise.resolve(): nothing chained, nothing sent
InitChain == [appended |-> << >>, sentAt |-> << >>]

\* part_001 317-323: the session object as it is created
InitSession == [dgStream |-> "null", lastTranscript |-> EmptyStr,
                queue |-> << >>, chatHistory |-> <<SystemTurn>>]

\* the state of a connection of the session handler, as Switch keeps it
Conn(w, d, rcv, lst, trg, sess, tsk, trk, jnk, pace) ==
  [ws |-> w, dg |-> d, received |-> rcv, lost |-> lst, triggers |-> trg,
   session |-> sess, tasks |-> tsk, trk |-> trk, junk |-> jnk, pace |-> pace]

InitRest ==
  /\ crashed = FALSE
  /\ ws = InitWs
  /\ dg = InitDg
  /\ aaWs = [readyState |-> "CONNECTING", sent |-> << >>, closeCalls |-> 0,
             errored |-> FALSE]
  /\ received = 0
  /\ lost = {}
  /\ triggers = 0
  /\ session = InitSession
  /\ tasks = << >>
  /\ dgStream = "undefined"
  /\ closed = FALSE
  /\ lastTranscript = EmptyStr
  /\ pendingAudio = << >>
  /\ buffer = << >>
  /\ aaReady = FALSE
  /\ openedAt = -1
  /\ heard = << >>
  /\ deltas = << >>
  /\ startLast = EmptyStr
  /\ uttDone = FALSE
  /\ active = "X"
  /\ other = Conn(InitWs, InitDg, 0, {}, 0, InitSession, << >>,
                  <<(<< >>), (<< >>), EmptyStr, FALSE>>, 0, <<{}, InitChain>>)
  /\ timers = {}
  /\ chain = InitChain
  /\ ready = "pending"
  /\ waiting = << >>
  /\ rejected = FALSE
  /\ junk = 0
  /\ now = StartTime
  /\ lastSentTimestamp = 0
  /\ streamClosed = FALSE

\* one connection has been accepted: part_001 324 sessions.set(ws, session)
InitState == sessions = {"ws"} /\ InitRest

Init == handler \in Handlers /\ InitState

\* ------------------------------------------------- external collaborators
\* dgStream.finish(): asks the stream to close; counted per invocation
DgFinish(d) ==
  [d EXCEPT !.finishCalls = @ + 1,
            !.state = IF @ = "open" THEN "finishing" ELSE @]

\* dgStream.send(frame): the stream takes audio while it is open
DgSend(d, frame) ==
  IF d.state = "open" THEN [d EXCEPT !.recv = Append(@, frame)]
  ELSE [d EXCEPT !.late = @ + 1]

\* WebSocket.send on the transport: delivered while the socket is open
WsSend(w, frame) ==
  IF w.readyState = "OPEN" THEN [w EXCEPT !.sent = Append(@, frame)] ELSE w

\* WebSocket.close() on the transport: starts the closing handshake
WsClose(w) ==
  [w EXCEPT !.readyState = IF @ = "OPEN" THEN "CLOSING" ELSE @]

\* aaWs.close(): counted per invocation; a no-op once closing or closed
AaClose(a) ==
  [a EXCEPT !.closeCalls = @ + 1,
            !.readyState = IF @ \in {"CONNECTING", "OPEN"} THEN "CLOSING" ELSE @]

\* aaWs.send(data): delivered while the socket is open
AaSend(a, data) ==
  IF a.readyState = "OPEN" THEN [a EXCEPT !.sent = Append(@, data)] ELSE a

\* the tracker's view of one recognition event, kept per utterance
Hear(T, fin, last, ds) ==
  /\ heard' = (IF uttDone THEN << >> ELSE heard) \o <<[text |-> T, final |-> fin]>>
  /\ deltas' = (IF uttDone THEN << >> ELSE deltas) \o ds
  /\ startLast' = IF uttDone \/ heard = << >> THEN last ELSE startLast
  /\ uttDone' = fin

\* ------------------------------------------------------------------------
\* "session": src/unnamed/part_001 lines 315-447
\* ------------------------------------------------------------------------
Live(h) == handler = h /\ ~crashed

\* the key of the running connection in the sessions Map: its ws object
Key == IF active = "X" THEN "ws" ELSE "ws2"

\* a cleanup that leaves the connection in the sessions Map
S_cleanupKeepsEntry(d) ==
  /\ dg' = IF session.dgStream = "set" THEN DgFinish(d) ELSE d
  /\ sessions' = sessions
  /\ triggers' = triggers + 1

\* a cleanup that empties the sessions Map
S_cleanupClearsMap(d) ==
  /\ dg' = IF session.dgStream = "set" THEN DgFinish(d) ELSE d
  /\ sessions' = {}
  /\ triggers' = triggers + 1

\* cleanup (327-331): session.dgStream?.finish(); sessions.delete(ws)
S_cleanup(d) ==
  /\ dg' = IF session.dgStream = "set" THEN DgFinish(d) ELSE d
  /\ sessions' = sessions \ {Key}
  /\ triggers' = triggers + 1

\* 335-342: listen.live() resolves; the stream is stored, handlers registered
S_LiveResolve ==
  /\ Live("session")
  /\ dg.state = "pending"
  /\ dg' = [dg EXCEPT !.state = "open"]
  /\ session' = [session EXCEPT !.dgStream = "set"]
  /\ UNCHANGED <<handler, paceVars, extVars, crashed, ws, aaWs, received, lost, triggers, openedAt,
                 sessions, tasks, dgVars, aaVars, trkVars>>

\* 427-430: listen.live() rejects; .catch calls cleanup
S_LiveReject ==
  /\ Live("session")
  /\ dg.state = "pending"
  /\ S_cleanup([dg EXCEPT !.state = "failed"])
  /\ UNCHANGED <<handler, paceVars, extVars, crashed, ws, aaWs, received, lost, openedAt,
                 session, tasks, dgVars, aaVars, trkVars>>

\* 352-354: the delta of the trimmed text against the stored last transcript
S_delta(text, last) ==
  IF StartsWith(text, last) THEN Trim(Slice(text, Len(last))) ELSE text

\* 364-366: push the user turn, then shift() once if longer than the cap
S_pushUser(h, i) ==
  LET h1 == Append(h, [role |-> "user", utt |-> i])
  IN IF Len(h1) > HistoryCap THEN Tail(h1) ELSE h1

\* 379: push the assistant turn
S_pushAssistant(h, i) == Append(h, [role |-> "assistant", utt |-> i])

\* a Transcript callback that requests a reply for interim events as well
S_TranscriptEveryEvent(T, fin) ==
  /\ Live("session")
  /\ session.dgStream = "set"
  /\ dg.state \in {"open", "finishing"}
  /\ IF T = EmptyStr
     THEN /\ Hear(T, fin, session.lastTranscript, << >>)
          /\ UNCHANGED <<session, tasks>>
     ELSE LET text == Trim(T)
              delta == S_delta(text, session.lastTranscript)
          IN /\ Hear(T, fin, session.lastTranscript, <<delta>>)
             /\ session' = [session EXCEPT
                  !.lastTranscript = IF fin THEN EmptyStr ELSE text,
                  !.chatHistory = S_pushUser(@, Len(tasks) + 1)]
             /\ tasks' = Append(tasks, [pc |-> "gen", reply |-> "none"])
  /\ UNCHANGED <<handler, paceVars, extVars, crashed, envVars, sessions, dgVars, aaVars>>

\* 347-371: the Transcript callback up to its first await
S_Transcript(T, fin) ==
  /\ Live("session")
  /\ session.dgStream = "set"
  /\ dg.state \in {"open", "finishing"}
  /\ IF T = EmptyStr
     THEN /\ Hear(T, fin, session.lastTranscript, << >>)
          /\ UNCHANGED <<session, tasks>>
     ELSE LET text == Trim(T)
              delta == S_delta(text, session.lastTranscript)
          IN /\ Hear(T, fin, session.lastTranscript, <<delta>>)
             /\ IF fin
                THEN /\ session' = [session EXCEPT
                          !.lastTranscript = EmptyStr,
                          !.chatHistory = S_pushUser(@, Len(tasks) + 1)]
                     /\ tasks' = Append(tasks, [pc |-> "gen", reply |-> "none"])
                ELSE /\ session' = [session EXCEPT !.lastTranscript = text]
                     /\ UNCHANGED tasks
  /\ UNCHANGED <<handler, paceVars, extVars, crashed, envVars, sessions, dgVars, aaVars>>

\* 371-379: the generation call resolves
S_GenResolve(i) ==
  /\ Live("session")
  /\ i \in DOMAIN tasks
  /\ tasks[i].pc = "gen"
  /\ session' = [session EXCEPT !.chatHistory = S_pushAssistant(@, i)]
  /\ tasks' = [tasks EXCEPT ![i] = [pc |-> "tts", reply |-> "generated"]]
  /\ UNCHANGED <<handler, paceVars, extVars, crashed, envVars, sessions, dgVars, aaVars, trkVars>>

\* a failed generation that ends the session through cleanup
S_GenRejectFatal(i) ==
  /\ Live("session")
  /\ i \in DOMAIN tasks
  /\ tasks[i].pc = "gen"
  /\ tasks' = [tasks EXCEPT ![i] = [pc |-> "dropped", reply |-> "none"]]
  /\ S_cleanup(dg)
  /\ UNCHANGED <<handler, paceVars, extVars, crashed, ws, aaWs, received, lost, openedAt,
                 session, dgVars, aaVars, trkVars>>

\* 380-382: the generation call rejects; the reply is the fallback text
S_GenReject(i) ==
  /\ Live("session")
  /\ i \in DOMAIN tasks
  /\ tasks[i].pc = "gen"
  /\ tasks' = [tasks EXCEPT ![i] = [pc |-> "tts", reply |-> "fallback"]]
  /\ UNCHANGED <<handler, paceVars, extVars, crashed, envVars, session, sessions, dgVars, aaVars,
                 trkVars>>

\* 405-416: session.queue = session.queue.then(...)
S_enqueue(q, i) == Append(q, i)

\* 415: the delay of the timer that precedes each queued send
DelayMs == 100

Timer(i) == [utt |-> i, at |-> now]

\* a send whose timer is set when the send is appended, whatever is chained
\* ahead of it
S_startTimerAtOnce(ts, q, i) == ts \cup {Timer(i)}

\* 405-406: then() runs the callback that sets the timer of frame i once
\* the chain q ahead of it has resolved: at once if nothing is pending
S_startTimer(ts, q, i) == IF q = << >> THEN ts \cup {Timer(i)} ELSE ts

\* a timer callback that sends its frame and leaves its link unresolved
S_resolveLinkNever(ts, q, i) == <<q, ts>>

\* 414: r() resolves the link of frame i, and the callback chained behind
\* it, if any, runs and sets its timer
S_resolveLink(ts, q, i) ==
  LET rest == SelectSeq(q, LAMBDA j : j # i)
  IN <<rest,
       IF rest = << >> \/ \E t \in ts : t.utt = Head(rest)
       THEN ts ELSE ts \cup {Timer(Head(rest))}>>

\* the timer the runtime runs next: the one that was set first
NextTimer == CHOOSE t \in timers : \A u \in timers : t.at <= u.at

\* 387-416: the synthesis call resolves; the send is chained on the queue
S_TtsResolve(i) ==
  /\ Live("session")
  /\ i \in DOMAIN tasks
  /\ tasks[i].pc = "tts"
  /\ session' = [session EXCEPT !.queue = S_enqueue(@, i)]
  /\ timers' = S_startTimer(timers, session.queue, i)
  /\ chain' = [chain EXCEPT !.appended = Append(@, i)]
  /\ tasks' = [tasks EXCEPT ![i].pc = "queued"]
  /\ UNCHANGED <<handler, extVars, crashed, envVars, sessions, dgVars, aaVars, trkVars>>

\* a failed synthesis whose slot is chained on the queue all the same
S_TtsRejectEnqueues(i) ==
  /\ Live("session")
  /\ i \in DOMAIN tasks
  /\ tasks[i].pc = "tts"
  /\ session' = [session EXCEPT !.queue = Append(@, i)]
  /\ timers' = S_startTimer(timers, session.queue, i)
  /\ chain' = [chain EXCEPT !.appended = Append(@, i)]
  /\ tasks' = [tasks EXCEPT ![i].pc = "dropped"]
  /\ UNCHANGED <<handler, extVars, crashed, envVars, sessions, dgVars, aaVars, trkVars>>

\* 399-402: the synthesis call rejects; the callback returns
S_TtsReject(i) ==
  /\ Live("session")
  /\ i \in DOMAIN tasks
  /\ tasks[i].pc = "tts"
  /\ tasks' = [tasks EXCEPT ![i].pc = "dropped"]
  /\ UNCHANGED <<handler, paceVars, extVars, crashed, envVars, session, sessions, dgVars, aaVars,
                 trkVars>>

\* 406-415: the 100 ms timer of a chained send fires: ws.send, r()
S_QueueTimer ==
  /\ Live("session")
  /\ timers # {}
  /\ LET i == NextTimer.utt
         r == S_resolveLink(timers \ {NextTimer}, session.queue, i)
     IN /\ ws' = WsSend(ws, i)
        /\ tasks' = [tasks EXCEPT ![i].pc = "sent"]
        /\ session' = [session EXCEPT !.queue = r[1]]
        /\ timers' = r[2]
        /\ chain' = [chain EXCEPT !.sentAt = Append(@, now)]
  /\ UNCHANGED <<handler, extVars, crashed, dg, aaWs, received, lost, triggers, openedAt,
                 sessions, dgVars, aaVars, trkVars>>

\* the time between two events of the reply queue, in steps of half a delay
PaceTickMs == 50

\* 406-415: time passes while the callbacks of the session handler wait
S_Tick ==
  /\ Live("session")
  /\ now' = now + PaceTickMs
  /\ UNCHANGED <<handler, paceVars, crashed, envVars, sessVars, dgVars, aaVars,
                 trkVars, active, other, ready, waiting, rejected, junk,
                 lastSentTimestamp, streamClosed>>

\* 433-439: a media frame with a payload; session.dgStream is null until
\* listen.live() has resolved, and null.send throws out of the callback
S_Media ==
  /\ Live("session")
  /\ ws.readyState = "OPEN"
  /\ received' = received + 1
  /\ IF session.dgStream = "null"
     THEN /\ crashed' = TRUE
          /\ lost' = lost \cup {received + 1}
          /\ UNCHANGED dg
     ELSE /\ dg' = DgSend(dg, received + 1)
          /\ lost' = IF dg.state = "open" THEN lost ELSE lost \cup {received + 1}
          /\ UNCHANGED crashed
  /\ UNCHANGED <<handler, paceVars, extVars, ws, aaWs, triggers, openedAt, sessVars, dgVars,
                 aaVars, trkVars>>

\* 440-443: a stop frame
S_Stop ==
  /\ Live("session")
  /\ ws.readyState = "OPEN"
  /\ ~ws.stopped
  /\ ws' = [ws EXCEPT !.stopped = TRUE]
  /\ S_cleanup(dg)
  /\ UNCHANGED <<handler, paceVars, extVars, crashed, aaWs, received, lost, openedAt, session,
                 tasks, dgVars, aaVars, trkVars>>

\* 446: ws.on('error', cleanup)
S_WsError ==
  /\ Live("session")
  /\ ws.readyState = "OPEN"
  /\ ws' = [ws EXCEPT !.readyState = "CLOSING"]
  /\ S_cleanup(dg)
  /\ UNCHANGED <<handler, paceVars, extVars, crashed, aaWs, received, lost, openedAt, session,
                 tasks, dgVars, aaVars, trkVars>>

\* 445: ws.on('close', cleanup)
S_WsClose ==
  /\ Live("session")
  /\ ws.readyState \in {"OPEN", "CLOSING"}
  /\ ws' = [ws EXCEPT !.readyState = "CLOSED"]
  /\ S_cleanup(dg)
  /\ UNCHANGED <<handler, paceVars, extVars, crashed, aaWs, received, lost, openedAt, session,
                 tasks, dgVars, aaVars, trkVars>>

\* 421-424: the stream's Error event
S_DgError ==
  /\ Live("session")
  /\ session.dgStream = "set"
  /\ dg.state \in {"open", "finishing"}
  /\ ~dg.errored
  /\ S_cleanup([dg EXCEPT !.errored = TRUE])
  /\ UNCHANGED <<handler, paceVars, extVars, crashed, ws, aaWs, received, lost, openedAt, session,
                 tasks, dgVars, aaVars, trkVars>>

\* 425-426: the stream's Close / Finish event
S_DgClose ==
  /\ Live("session")
  /\ session.dgStream = "set"
  /\ dg.state \in {"open", "finishing"}
  /\ S_cleanup([dg EXCEPT !.state = "closed"])
  /\ UNCHANGED <<handler, paceVars, extVars, crashed, ws, aaWs, received, lost, openedAt, session,
                 tasks, dgVars, aaVars, trkVars>>

\* 315: the event loop turns to an event of the other connection: the
\* callbacks of a connection see the session, ws and stream of their own
\* closure, and the sessions Map, which is one for the process
Switch ==
  /\ Live("session")
  /\ active' = IF active = "X" THEN "Y" ELSE "X"
  /\ other' = Conn(ws, dg, received, lost, triggers, session, tasks,
                   <<heard, deltas, startLast, uttDone>>, junk, <<timers, chain>>)
  /\ ws' = other.ws
  /\ dg' = other.dg
  /\ received' = other.received
  /\ lost' = other.lost
  /\ triggers' = other.triggers
  /\ session' = other.session
  /\ tasks' = other.tasks
  /\ heard' = other.trk[1]
  /\ deltas' = other.trk[2]
  /\ startLast' = other.trk[3]
  /\ uttDone' = other.trk[4]
  /\ junk' = other.junk
  /\ timers' = other.pace[1]
  /\ chain' = other.pace[2]
  /\ UNCHANGED <<handler, crashed, sessions, aaWs, openedAt, dgVars, aaVars,
                 ready, waiting, rejected, now, lastSentTimestamp, streamClosed>>

\* ------------------------------------------------------------------------
\* "dg": src/server.js lines 55-149
\* ------------------------------------------------------------------------
\* a cleanup that finishes the stream whatever the flag says
D_cleanupUnguarded(d) ==
  /\ closed' = TRUE
  /\ dg' = DgFinish(d)
  /\ triggers' = triggers + 1

\* cleanup (60-66): if (!closed) { closed = true; try { dgStream.finish() } }
D_cleanup(d) ==
  /\ closed' = TRUE
  /\ dg' = IF closed THEN d ELSE DgFinish(d)
  /\ triggers' = triggers + 1

\* 70-77: listen.live() resolves; the callback goes on to register handlers
D_LiveResolve ==
  /\ Live("dg")
  /\ dg.state = "pending"
  /\ dg' = [dg EXCEPT !.state = "open"]
  /\ dgStream' = "set"
  /\ UNCHANGED <<handler, paceVars, extVars, crashed, ws, aaWs, received, lost, triggers, openedAt,
                 sessVars, closed, lastTranscript, aaVars, trkVars>>

\* 78-82: listen.live() rejects: ws.close(); return
D_LiveReject ==
  /\ Live("dg")
  /\ dg.state = "pending"
  /\ dg' = [dg EXCEPT !.state = "failed"]
  /\ ws' = WsClose(ws)
  /\ UNCHANGED <<handler, paceVars, extVars, crashed, aaWs, received, lost, triggers, openedAt,
                 sessVars, dgVars, aaVars, trkVars>>

\* a new text that is trimmed after the stored prefix has been cut off
D_newTextTrimmed(transcript, last) ==
  IF StartsWith(transcript, last) THEN Trim(Slice(transcript, Len(last)))
  ELSE transcript

\* 91-93: the new text of a transcript against the stored last transcript
D_newText(transcript, last) ==
  IF StartsWith(transcript, last) THEN Slice(transcript, Len(last))
  ELSE transcript

\* 94, 100-103: the stored last transcript after the event
D_store(transcript, fin) == IF fin THEN EmptyStr ELSE transcript

\* 86-104: the Transcript callback
D_Transcript(T, fin) ==
  /\ Live("dg")
  /\ dgStream = "set"
  /\ dg.state \in {"open", "finishing"}
  /\ IF T = EmptyStr
     THEN /\ Hear(T, fin, lastTranscript, << >>)
          /\ UNCHANGED lastTranscript
     ELSE /\ Hear(T, fin, lastTranscript, <<D_newText(T, lastTranscript)>>)
          /\ lastTranscript' = D_store(T, fin)
  /\ UNCHANGED <<handler, paceVars, extVars, crashed, envVars, sessVars, dgStream, closed, aaVars>>

\* 116-133: a media frame with a payload; before listen.live() has resolved
\* no 'message' listener is registered and the frame is emitted to nobody
D_Media ==
  /\ Live("dg")
  /\ ws.readyState = "OPEN"
  /\ received' = received + 1
  /\ IF dgStream = "undefined"
     THEN /\ lost' = lost \cup {received + 1}
          /\ UNCHANGED dg
     ELSE /\ dg' = DgSend(dg, received + 1)
          /\ lost' = IF dg.state = "open" THEN lost ELSE lost \cup {received + 1}
  /\ UNCHANGED <<handler, paceVars, extVars, crashed, ws, aaWs, triggers, openedAt, sessVars,
                 dgVars, aaVars, trkVars>>

\* 135-138: a stop frame (unheard while no listener is registered)
D_Stop ==
  /\ Live("dg")
  /\ ws.readyState = "OPEN"
  /\ ~ws.stopped
  /\ ws' = [ws EXCEPT !.stopped = TRUE]
  /\ IF dgStream = "set" THEN D_cleanup(dg) ELSE UNCHANGED <<closed, dg, triggers>>
  /\ UNCHANGED <<handler, paceVars, extVars, crashed, aaWs, received, lost, openedAt, sessVars,
                 dgStream, lastTranscript, aaVars, trkVars>>

\* 141-144: the transport's 'error' event; an 'error' event nobody listens to
\* is thrown by the emitter
D_WsError ==
  /\ Live("dg")
  /\ ws.readyState = "OPEN"
  /\ ws' = [ws EXCEPT !.readyState = "CLOSING"]
  /\ IF dgStream = "set"
     THEN D_cleanup(dg) /\ UNCHANGED crashed
     ELSE crashed' = TRUE /\ UNCHANGED <<closed, dg, triggers>>
  /\ UNCHANGED <<handler, paceVars, extVars, aaWs, received, lost, openedAt, sessVars,
                 dgStream, lastTranscript, aaVars, trkVars>>

\* 145-148: the transport's 'close' event
D_WsClose ==
  /\ Live("dg")
  /\ ws.readyState \in {"OPEN", "CLOSING"}
  /\ ws' = [ws EXCEPT !.readyState = "CLOSED"]
  /\ IF dgStream = "set" THEN D_cleanup(dg) ELSE UNCHANGED <<closed, dg, triggers>>
  /\ UNCHANGED <<handler, paceVars, extVars, crashed, aaWs, received, lost, openedAt, sessVars,
                 dgStream, lastTranscript, aaVars, trkVars>>

\* 106-109: the stream's Error event
D_DgError ==
  /\ Live("dg")
  /\ dgStream = "set"
  /\ dg.state \in {"open", "finishing"}
  /\ ~dg.errored
  /\ D_cleanup([dg EXCEPT !.errored = TRUE])
  /\ UNCHANGED <<handler, paceVars, extVars, crashed, ws, aaWs, received, lost, openedAt, sessVars,
                 dgStream, lastTranscript, aaVars, trkVars>>

\* 110: the stream's Close event
D_DgClose ==
  /\ Live("dg")
  /\ dgStream = "set"
  /\ dg.state \in {"open", "finishing"}
  /\ D_cleanup([dg EXCEPT !.state = "closed"])
  /\ UNCHANGED <<handler, paceVars, extVars, crashed, ws, aaWs, received, lost, openedAt, sessVars,
                 dgStream, lastTranscript, aaVars, trkVars>>

\* ------------------------------------------------------------------------
\* "aa": src/server.js lines 435-536;  "buf": src/unnamed/part_002 94-187
\* ------------------------------------------------------------------------
ConfigFrame == [kind |-> "config", frame |-> 0]
AudioFrame(k) == [kind |-> "audio", frame |-> k]

\* the audio frames the recognizer was sent, in the order it was sent them
Audio(sent) ==
  LET a == SelectSeq(sent, LAMBDA m : m.kind = "audio")
  IN [k \in 1..Len(a) |-> a[k].frame]

\* a flush that walks the buffer from its newest frame to its oldest
A_flushNewestFirst(a, pending) ==
  [a EXCEPT !.sent = @ \o [k \in 1..Len(pending) |-> pending[Len(pending) + 1 - k]]]

\* a flush that runs ahead of the send of the config frame
A_flushAheadOfConfig(a, pending) == [a EXCEPT !.sent = pending \o @]

\* server.js 461-463: for (const chunk of pendingAudio) aaWs.send(chunk)
A_flush(a, pending) == [a EXCEPT !.sent = @ \o pending]

\* server.js 447-465: 'open': send the config frame, flush, empty the buffer
A_AaOpen ==
  /\ Live("aa")
  /\ aaWs.readyState = "CONNECTING"
  /\ aaWs' = A_flush(AaSend([aaWs EXCEPT !.readyState = "OPEN"], ConfigFrame),
                     pendingAudio)
  /\ pendingAudio' = << >>
  /\ openedAt' = received
  /\ UNCHANGED <<handler, paceVars, extVars, crashed, ws, dg, received, lost, triggers, sessVars,
                 dgVars, buffer, aaReady, trkVars>>

\* server.js 513-519: forward while the socket is OPEN, else buffer
A_ingest(a, pending, frame) ==
  IF a.readyState = "OPEN"
  THEN <<AaSend(a, frame), pending>>
  ELSE <<a, Append(pending, frame)>>

\* server.js 506-520: a media frame with a payload
A_Media ==
  /\ Live("aa")
  /\ ws.readyState = "OPEN"
  /\ received' = received + 1
  /\ LET r == A_ingest(aaWs, pendingAudio, AudioFrame(received + 1))
     IN aaWs' = r[1] /\ pendingAudio' = r[2]
  /\ UNCHANGED <<handler, paceVars, extVars, crashed, ws, dg, lost, triggers, openedAt, sessVars,
                 dgVars, buffer, aaReady, trkVars>>

\* server.js 521-525: a stop frame: aaWs.close(); twilioWs.close()
A_Stop ==
  /\ Live("aa")
  /\ ws.readyState = "OPEN"
  /\ ~ws.stopped
  /\ aaWs' = AaClose(aaWs)
  /\ ws' = WsClose([ws EXCEPT !.stopped = TRUE])
  /\ triggers' = triggers + 1
  /\ UNCHANGED <<handler, paceVars, extVars, crashed, dg, received, lost, openedAt, sessVars,
                 dgVars, aaVars, trkVars>>

\* server.js 528-531: the transport's 'close' event: aaWs.close()
A_TwilioClose ==
  /\ Live("aa")
  /\ ws.readyState \in {"OPEN", "CLOSING"}
  /\ ws' = [ws EXCEPT !.readyState = "CLOSED"]
  /\ aaWs' = AaClose(aaWs)
  /\ triggers' = triggers + 1
  /\ UNCHANGED <<handler, paceVars, extVars, crashed, dg, received, lost, openedAt, sessVars,
                 dgVars, aaVars, trkVars>>

\* server.js 532-535: the transport's 'error' event: aaWs.close()
A_TwilioError ==
  /\ Live("aa")
  /\ ws.readyState = "OPEN"
  /\ ws' = [ws EXCEPT !.readyState = "CLOSING"]
  /\ aaWs' = AaClose(aaWs)
  /\ triggers' = triggers + 1
  /\ UNCHANGED <<handler, paceVars, extVars, crashed, dg, received, lost, openedAt, sessVars,
                 dgVars, aaVars, trkVars>>

\* server.js 502 / part_002 156: the recognition socket's 'close': logged
AaClosed ==
  /\ handler \in {"aa", "buf"} /\ ~crashed
  /\ aaWs.readyState \in {"CONNECTING", "OPEN", "CLOSING"}
  /\ aaWs' = [aaWs EXCEPT !.readyState = "CLOSED"]
  /\ UNCHANGED <<handler, paceVars, extVars, crashed, ws, dg, received, lost, triggers, openedAt,
                 sessVars, dgVars, aaVars, trkVars>>

\* server.js 503 / part_002 155: the recognition socket's 'error': logged
AaErrored ==
  /\ handler \in {"aa", "buf"} /\ ~crashed
  /\ aaWs.readyState \in {"CONNECTING", "OPEN"}
  /\ aaWs' = [aaWs EXCEPT !.readyState = "CLOSING", !.errored = TRUE]
  /\ UNCHANGED <<handler, paceVars, extVars, crashed, ws, dg, received, lost, triggers, openedAt,
                 sessVars, dgVars, aaVars, trkVars>>

\* part_002 118: buffer.forEach(frame => aaWs.send(frame))
B_flush(a, buf) == [a EXCEPT !.sent = @ \o buf]

\* part_002 106-120: 'open': send Start, aaReady = true, flush, buffer = []
B_AaOpen ==
  /\ Live("buf")
  /\ aaWs.readyState = "CONNECTING"
  /\ aaWs' = B_flush(AaSend([aaWs EXCEPT !.readyState = "OPEN"], ConfigFrame),
                     buffer)
  /\ aaReady' = TRUE
  /\ buffer' = << >>
  /\ openedAt' = received
  /\ UNCHANGED <<handler, paceVars, extVars, crashed, ws, dg, received, lost, triggers, sessVars,
                 dgVars, pendingAudio, trkVars>>

\* part_002 164-170: forward once aaReady, else buffer
B_ingest(a, isReady, buf, frame) ==
  IF isReady THEN <<AaSend(a, frame), buf>> ELSE <<a, Append(buf, frame)>>

\* part_002 159-171: a media frame with a payload
B_Media ==
  /\ Live("buf")
  /\ ws.readyState = "OPEN"
  /\ received' = received + 1
  /\ LET r == B_ingest(aaWs, aaReady, buffer, AudioFrame(received + 1))
     IN aaWs' = r[1] /\ buffer' = r[2]
  /\ lost' = IF aaReady /\ aaWs.readyState # "OPEN"
             THEN lost \cup {received + 1} ELSE lost
  /\ UNCHANGED <<handler, paceVars, extVars, crashed, ws, dg, triggers, openedAt, sessVars,
                 dgVars, pendingAudio, aaReady, trkVars>>

\* part_002 172-176: a stop frame: aaWs.close(); twilioWs.close()
B_Stop ==
  /\ Live("buf")
  /\ ws.readyState = "OPEN"
  /\ ~ws.stopped
  /\ aaWs' = AaClose(aaWs)
  /\ ws' = WsClose([ws EXCEPT !.stopped = TRUE])
  /\ triggers' = triggers + 1
  /\ UNCHANGED <<handler, paceVars, extVars, crashed, dg, received, lost, openedAt, sessVars,
                 dgVars, aaVars, trkVars>>

\* part_002 179-182: the transport's 'close' event: aaWs.close()
B_TwilioClose ==
  /\ Live("buf")
  /\ ws.readyState \in {"OPEN", "CLOSING"}
  /\ ws' = [ws EXCEPT !.readyState = "CLOSED"]
  /\ aaWs' = AaClose(aaWs)
  /\ triggers' = triggers + 1
  /\ UNCHANGED <<handler, paceVars, extVars, crashed, dg, received, lost, openedAt, sessVars,
                 dgVars, aaVars, trkVars>>

\* part_002 183-186: the transport's 'error' event: aaWs.close()
B_TwilioError ==
  /\ Live("buf")
  /\ ws.readyState = "OPEN"
  /\ ws' = [ws EXCEPT !.readyState = "CLOSING"]
  /\ aaWs' = AaClose(aaWs)
  /\ triggers' = triggers + 1
  /\ UNCHANGED <<handler, paceVars, extVars, crashed, dg, received, lost, openedAt, sessVars,
                 dgVars, aaVars, trkVars>>

\* ------------------------------------------------------------------------
\* "rt": src/server.js lines 261-338 (RealtimeService transcriber)
\* ------------------------------------------------------------------------
\* a promise rejection that nothing handles: older Node versions log it and
\* go on, Node 15 and later end the process
Unhandled == rejected' = TRUE /\ crashed' \in BOOLEAN

\* a media callback suspended at await ready (322), with what it will send
Waiter(k, hasPayload) == [frame |-> k, payload |-> hasPayload]

\* suspended callbacks that resume newest first
R_resumeNewestFirst(a, ws_) ==
  LET good == SelectSeq(ws_, LAMBDA w : w.payload)
  IN [a EXCEPT !.sent = @ \o [k \in 1..Len(good) |->
                                AudioFrame(good[Len(good) + 1 - k].frame)]]

\* 323: the suspended callbacks resume in the order they were suspended;
\* each one whose frame has a payload calls transcriber.sendAudio
R_resume(a, ws_) ==
  LET good == SelectSeq(ws_, LAMBDA w : w.payload)
  IN [a EXCEPT !.sent = @ \o [k \in 1..Len(good) |-> AudioFrame(good[k].frame)]]

\* 270: transcriber.connect() resolves; the suspended media callbacks resume
\* (323), and one whose frame has no payload rejects
R_ConnectResolve ==
  /\ Live("rt")
  /\ ready = "pending"
  /\ aaWs.readyState = "CONNECTING"
  /\ ready' = "resolved"
  /\ aaWs' = R_resume([aaWs EXCEPT !.readyState = "OPEN"], waiting)
  /\ waiting' = << >>
  /\ openedAt' = received
  /\ IF \E k \in DOMAIN waiting : ~waiting[k].payload
     THEN Unhandled
     ELSE UNCHANGED <<rejected, crashed>>
  /\ UNCHANGED <<handler, paceVars, ws, dg, received, lost, triggers, sessVars, dgVars,
                 aaVars, trkVars, active, other, junk, now, lastSentTimestamp,
                 streamClosed>>

\* 270: transcriber.connect() rejects: nothing handles the rejection of
\* ready, and every callback suspended at await ready rejects with it
R_ConnectReject ==
  /\ Live("rt")
  /\ ready = "pending"
  /\ aaWs.readyState = "CONNECTING"
  /\ ready' = "rejected"
  /\ aaWs' = [aaWs EXCEPT !.readyState = "CLOSED", !.errored = TRUE]
  /\ lost' = lost \cup {waiting[k].frame : k \in {j \in DOMAIN waiting : waiting[j].payload}}
  /\ waiting' = << >>
  /\ Unhandled
  /\ UNCHANGED <<handler, paceVars, ws, dg, received, triggers, openedAt, sessVars, dgVars,
                 aaVars, trkVars, active, other, junk, now, lastSentTimestamp,
                 streamClosed>>

\* 319-323: a media frame with a payload: await ready, then sendAudio
R_Media ==
  /\ Live("rt")
  /\ ws.readyState = "OPEN"
  /\ received' = received + 1
  /\ CASE ready = "pending" ->
            /\ waiting' = Append(waiting, Waiter(received + 1, TRUE))
            /\ UNCHANGED <<aaWs, lost, rejected, crashed>>
       [] ready = "resolved" ->
            /\ aaWs' = AaSend(aaWs, AudioFrame(received + 1))
            /\ lost' = IF aaWs.readyState = "OPEN" THEN lost
                       ELSE lost \cup {received + 1}
            /\ UNCHANGED <<waiting, rejected, crashed>>
       [] ready = "rejected" ->
            /\ lost' = lost \cup {received + 1}
            /\ Unhandled
            /\ UNCHANGED <<aaWs, waiting>>
  /\ UNCHANGED <<handler, paceVars, ws, dg, triggers, openedAt, sessVars, dgVars, aaVars,
                 trkVars, active, other, ready, junk, now, lastSentTimestamp,
                 streamClosed>>

\* 283-291: the transcript.final callback up to its await of the generation
R_Final(T) ==
  /\ Live("rt")
  /\ aaWs.readyState \in {"OPEN", "CLOSING"}
  /\ tasks' = Append(tasks, [pc |-> "gen", reply |-> "none"])
  /\ UNCHANGED <<handler, paceVars, crashed, envVars, session, sessions, dgVars, aaVars,
                 trkVars, extVars>>

\* 291-312: the generation resolves: aiText is the generated reply; the
\* TwiML that says aiText is built and the call update is submitted
R_GenResolve(i) ==
  /\ Live("rt")
  /\ i \in DOMAIN tasks
  /\ tasks[i].pc = "gen"
  /\ tasks' = [tasks EXCEPT ![i] = [pc |-> "update", reply |-> "generated"]]
  /\ UNCHANGED <<handler, paceVars, crashed, envVars, session, sessions, dgVars, aaVars,
                 trkVars, extVars>>

\* 289, 300-312: the generation rejects: the catch logs, aiText is still
\* 'Sorry, something went wrong.', and the call update is submitted with it
R_GenReject(i) ==
  /\ Live("rt")
  /\ i \in DOMAIN tasks
  /\ tasks[i].pc = "gen"
  /\ tasks' = [tasks EXCEPT ![i] = [pc |-> "update", reply |-> "fallback"]]
  /\ UNCHANGED <<handler, paceVars, crashed, envVars, session, sessions, dgVars, aaVars,
                 trkVars, extVars>>

\* 312-313: the call update resolves: the call says the reply
R_UpdateResolve(i) ==
  /\ Live("rt")
  /\ i \in DOMAIN tasks
  /\ tasks[i].pc = "update"
  /\ tasks' = [tasks EXCEPT ![i].pc = "sent"]
  /\ UNCHANGED <<handler, paceVars, crashed, envVars, session, sessions, dgVars, aaVars,
                 trkVars, extVars>>

\* 314-316: the call update rejects: logged
R_UpdateReject(i) ==
  /\ Live("rt")
  /\ i \in DOMAIN tasks
  /\ tasks[i].pc = "update"
  /\ tasks' = [tasks EXCEPT ![i].pc = "dropped"]
  /\ UNCHANGED <<handler, paceVars, crashed, envVars, session, sessions, dgVars, aaVars,
                 trkVars, extVars>>

\* 324-327: a stop frame: transcriber.close()
R_Stop ==
  /\ Live("rt")
  /\ ws.readyState = "OPEN"
  /\ ~ws.stopped
  /\ ws' = [ws EXCEPT !.stopped = TRUE]
  /\ aaWs' = AaClose(aaWs)
  /\ triggers' = triggers + 1
  /\ UNCHANGED <<handler, paceVars, crashed, dg, received, lost, openedAt, sessVars,
                 dgVars, aaVars, trkVars, extVars>>

\* 330-333: the transport's 'close' event: transcriber.close()
R_TwilioClose ==
  /\ Live("rt")
  /\ ws.readyState \in {"OPEN", "CLOSING"}
  /\ ws' = [ws EXCEPT !.readyState = "CLOSED"]
  /\ aaWs' = AaClose(aaWs)
  /\ triggers' = triggers + 1
  /\ UNCHANGED <<handler, paceVars, crashed, dg, received, lost, openedAt, sessVars,
                 dgVars, aaVars, trkVars, extVars>>

\* 334-337: the transport's 'error' event: transcriber.close()
R_TwilioError ==
  /\ Live("rt")
  /\ ws.readyState = "OPEN"
  /\ ws' = [ws EXCEPT !.readyState = "CLOSING"]
  /\ aaWs' = AaClose(aaWs)
  /\ triggers' = triggers + 1
  /\ UNCHANGED <<handler, paceVars, crashed, dg, received, lost, openedAt, sessVars,
                 dgVars, aaVars, trkVars, extVars>>

\* 274: the transcriber's 'close' event: logged
R_TranscriberClosed ==
  /\ Live("rt")
  /\ aaWs.readyState \in {"OPEN", "CLOSING"}
  /\ aaWs' = [aaWs EXCEPT !.readyState = "CLOSED"]
  /\ UNCHANGED <<handler, paceVars, crashed, ws, dg, received, lost, triggers, openedAt,
                 sessVars, dgVars, aaVars, trkVars, extVars>>

\* 273: the transcriber's 'error' event on the open socket: logged
R_TranscriberErrored ==
  /\ Live("rt")
  /\ aaWs.readyState = "OPEN"
  /\ aaWs' = [aaWs EXCEPT !.readyState = "CLOSING", !.errored = TRUE]
  /\ UNCHANGED <<handler, paceVars, crashed, ws, dg, received, lost, triggers, openedAt,
                 sessVars, dgVars, aaVars, trkVars, extVars>>

\* ------------------------------------------------------------------------
\* "stream": src/unnamed/part_001 lines 83-197;
\* "throttle": src/unnamed/part_003 lines 62-207
\* ------------------------------------------------------------------------
Plain == handler \in {"stream", "throttle"} /\ ~crashed

\* part_001 87-92 / part_003 66-71: listen.live() resolves; the callback goes
\* on to register its handlers
P_LiveResolve ==
  /\ Plain
  /\ dg.state = "pending"
  /\ dg' = [dg EXCEPT !.state = "open"]
  /\ dgStream' = "set"
  /\ UNCHANGED <<handler, paceVars, extVars, crashed, ws, aaWs, received, lost, triggers,
                 openedAt, sessVars, closed, lastTranscript, aaVars, trkVars>>

\* part_001 87 / part_003 66: listen.live() rejects out of the async
\* connection callback, which has no try around the await
P_LiveReject ==
  /\ Plain
  /\ dg.state = "pending"
  /\ dg' = [dg EXCEPT !.state = "failed"]
  /\ Unhandled
  /\ UNCHANGED <<handler, paceVars, ws, aaWs, received, lost, triggers, openedAt, sessVars,
                 dgVars, aaVars, trkVars, active, other, ready, waiting, junk,
                 now, lastSentTimestamp, streamClosed>>

\* part_001 172-180: a media frame with a payload is sent to the stream;
\* before listen.live() has resolved no 'message' listener is registered
P_Media ==
  /\ Live("stream")
  /\ ws.readyState = "OPEN"
  /\ received' = received + 1
  /\ IF dgStream = "undefined"
     THEN /\ lost' = lost \cup {received + 1}
          /\ UNCHANGED dg
     ELSE /\ dg' = DgSend(dg, received + 1)
          /\ lost' = IF dg.state = "open" THEN lost ELSE lost \cup {received + 1}
  /\ UNCHANGED <<handler, paceVars, extVars, crashed, ws, aaWs, triggers, openedAt,
                 sessVars, dgVars, aaVars, trkVars>>

\* part_003 102: if (now - lastSentTimestamp > 1000)
ThrottleMs == 1000

\* the step of the clock
TickMs == 500

\* part_003 101: time passes between two events
T_Tick ==
  /\ Live("throttle")
  /\ now' = now + TickMs
  /\ UNCHANGED <<handler, paceVars, crashed, envVars, sessVars, dgVars, aaVars, trkVars,
                 active, other, ready, waiting, rejected, junk,
                 lastSentTimestamp, streamClosed>>

\* a test that lets a frame through one interval after the last one
T_dueAtInterval(n, last) == n - last >= ThrottleMs

\* part_003 102: if (now - lastSentTimestamp > 1000)
T_due(n, last) == n - last > ThrottleMs

\* part_003 100-111: a media frame with a payload is sent to the stream if
\* more than a second has passed since the last one that was
T_Media ==
  /\ Live("throttle")
  /\ ws.readyState = "OPEN"
  /\ received' = received + 1
  /\ IF dgStream = "set" /\ T_due(now, lastSentTimestamp)
     THEN /\ lastSentTimestamp' = now
          /\ dg' = DgSend(dg, received + 1)
          /\ lost' = IF dg.state = "open" THEN lost ELSE lost \cup {received + 1}
     ELSE /\ lost' = lost \cup {received + 1}
          /\ UNCHANGED <<dg, lastSentTimestamp>>
  /\ UNCHANGED <<handler, paceVars, crashed, ws, aaWs, triggers, openedAt, sessVars,
                 dgVars, aaVars, trkVars, active, other, ready, waiting,
                 rejected, junk, now, streamClosed>>

\* part_001 181-183 / part_003 112-114: a stop frame is logged
P_Stop ==
  /\ Plain
  /\ ws.readyState = "OPEN"
  /\ ~ws.stopped
  /\ ws' = [ws EXCEPT !.stopped = TRUE]
  /\ UNCHANGED <<handler, paceVars, extVars, crashed, dg, aaWs, received, lost, triggers,
                 openedAt, sessVars, dgVars, aaVars, trkVars>>

\* part_001 189-191 / part_003 120-122: the transport's 'error' event is
\* logged; an 'error' event nobody listens to is thrown by the emitter
P_WsError ==
  /\ Plain
  /\ ws.readyState = "OPEN"
  /\ ws' = [ws EXCEPT !.readyState = "CLOSING"]
  /\ crashed' = (dgStream = "undefined")
  /\ UNCHANGED <<handler, paceVars, extVars, dg, aaWs, received, lost, triggers, openedAt,
                 sessVars, dgVars, aaVars, trkVars>>

\* part_001 193-196 / part_003 124-127: the transport's 'close' event:
\* if (dgStream) dgStream.finish()
P_WsClose ==
  /\ Plain
  /\ ws.readyState \in {"OPEN", "CLOSING"}
  /\ ws' = [ws EXCEPT !.readyState = "CLOSED"]
  /\ IF dgStream = "set"
     THEN dg' = DgFinish(dg) /\ triggers' = triggers + 1
     ELSE UNCHANGED <<dg, triggers>>
  /\ UNCHANGED <<handler, paceVars, extVars, crashed, aaWs, received, lost, openedAt,
                 sessVars, dgVars, aaVars, trkVars>>

\* part_001 157-159 / part_003 80-82: the stream's 'error' event is logged
P_DgError ==
  /\ Plain
  /\ dgStream = "set"
  /\ dg.state \in {"open", "finishing"}
  /\ ~dg.errored
  /\ dg' = [dg EXCEPT !.errored = TRUE]
  /\ UNCHANGED <<handler, paceVars, extVars, crashed, ws, aaWs, received, lost, triggers,
                 openedAt, sessVars, dgVars, aaVars, trkVars>>

\* part_001 160-165 / part_003 84-90: the stream's 'close' / 'finish' event
\* is logged
P_DgClose ==
  /\ Plain
  /\ dgStream = "set"
  /\ dg.state \in {"open", "finishing"}
  /\ dg' = [dg EXCEPT !.state = "closed"]
  /\ UNCHANGED <<handler, paceVars, extVars, crashed, ws, aaWs, received, lost, triggers,
                 openedAt, sessVars, dgVars, aaVars, trkVars>>

\* part_001 94-101 / part_003 130-138: the transcriptReceived callback of
\* a final event with a transcript, up to its await of the generation (an
\* interim event or an empty transcript returns at 95-97)
P_Final(T) ==
  /\ Plain
  /\ dgStream = "set"
  /\ dg.state \in {"open", "finishing"}
  /\ tasks' = Append(tasks, [pc |-> "gen", reply |-> "none", left |-> 0])
  /\ UNCHANGED <<handler, paceVars, extVars, crashed, envVars, session, sessions,
                 dgVars, aaVars, trkVars>>

\* part_001 101-113 / part_003 138-150: the generation resolves; the
\* streaming synthesis is requested
P_GenResolve(i) ==
  /\ Plain
  /\ i \in DOMAIN tasks
  /\ tasks[i].pc = "gen"
  /\ tasks' = [tasks EXCEPT ![i] = [pc |-> "tts", reply |-> "generated", left |-> 0]]
  /\ UNCHANGED <<handler, paceVars, extVars, crashed, envVars, session, sessions,
                 dgVars, aaVars, trkVars>>

\* part_001 152-154 / part_003 203-205: the generation rejects: logged
P_GenReject(i) ==
  /\ Plain
  /\ i \in DOMAIN tasks
  /\ tasks[i].pc = "gen"
  /\ tasks' = [tasks EXCEPT ![i].pc = "dropped"]
  /\ UNCHANGED <<handler, paceVars, extVars, crashed, envVars, session, sessions,
                 dgVars, aaVars, trkVars>>

\* part_001 130-151 / part_003 167-202: the synthesis responds ok; a 'data'
\* listener is registered on the body of the response
P_TtsResolve(i) ==
  /\ Plain
  /\ i \in DOMAIN tasks
  /\ tasks[i].pc = "tts"
  /\ tasks' = [tasks EXCEPT ![i].pc = "streaming", ![i].left = MaxChunks]
  /\ UNCHANGED <<handler, paceVars, extVars, crashed, envVars, session, sessions,
                 dgVars, aaVars, trkVars>>

\* part_001 130-133, 152-154 / part_003 167-170, 203-205: the synthesis
\* responds not ok, or the fetch rejects: logged
P_TtsFail(i) ==
  /\ Plain
  /\ i \in DOMAIN tasks
  /\ tasks[i].pc = "tts"
  /\ tasks' = [tasks EXCEPT ![i].pc = "dropped"]
  /\ UNCHANGED <<handler, paceVars, extVars, crashed, envVars, session, sessions,
                 dgVars, aaVars, trkVars>>

\* a synthesized chunk as it is sent on the connection
Chunk(i, k) == [utt |-> i, chunk |-> k]

\* part_001 136-147 / part_003 187-198: a 'data' event of reply i: the chunk
\* is sent on the connection as it arrives; 'end' after the last one
P_Chunk(i) ==
  /\ Plain
  /\ i \in DOMAIN tasks
  /\ tasks[i].pc = "streaming"
  /\ ws' = WsSend(ws, Chunk(i, MaxChunks - tasks[i].left + 1))
  /\ tasks' = [tasks EXCEPT ![i].left = @ - 1,
                            ![i].pc = IF tasks[i].left = 1 THEN "sent" ELSE @]
  /\ UNCHANGED <<handler, paceVars, extVars, crashed, dg, aaWs, received, lost,
                 triggers, openedAt, session, sessions, dgVars, aaVars, trkVars>>

\* ------------------------------------------------------------------------
\* "flag": src/unnamed/part_003 lines 278-359
\* ------------------------------------------------------------------------
\* cleanupDeepgram (283-289): if (!streamClosed) { streamClosed = true;
\* try { dgStream.finish() } }
F_cleanupDeepgram(d) ==
  /\ streamClosed' = TRUE
  /\ dg' = IF streamClosed THEN d ELSE DgFinish(d)
  /\ triggers' = triggers + 1

\* 291-299: listen.live() resolves; the callback goes on to register handlers
F_LiveResolve ==
  /\ Live("flag")
  /\ dg.state = "pending"
  /\ dg' = [dg EXCEPT !.state = "open"]
  /\ dgStream' = "set"
  /\ UNCHANGED <<handler, paceVars, extVars, crashed, ws, aaWs, received, lost, triggers,
                 openedAt, sessVars, closed, lastTranscript, aaVars, trkVars>>

\* 300-304: listen.live() rejects: ws.close(); return
F_LiveReject ==
  /\ Live("flag")
  /\ dg.state = "pending"
  /\ dg' = [dg EXCEPT !.state = "failed"]
  /\ ws' = WsClose(ws)
  /\ UNCHANGED <<handler, paceVars, extVars, crashed, aaWs, received, lost, triggers,
                 openedAt, sessVars, dgVars, aaVars, trkVars>>

\* 332-338: a media frame with a payload; before listen.live() has resolved
\* no 'message' listener is registered
F_Media ==
  /\ Live("flag")
  /\ ws.readyState = "OPEN"
  /\ received' = received + 1
  /\ IF dgStream = "undefined"
     THEN /\ lost' = lost \cup {received + 1}
          /\ UNCHANGED dg
     ELSE /\ dg' = DgSend(dg, received + 1)
          /\ lost' = IF dg.state = "open" THEN lost ELSE lost \cup {received + 1}
  /\ UNCHANGED <<handler, paceVars, extVars, crashed, ws, aaWs, triggers, openedAt,
                 sessVars, dgVars, aaVars, trkVars>>

\* 339-342: a stop frame (unheard while no listener is registered)
F_Stop ==
  /\ Live("flag")
  /\ ws.readyState = "OPEN"
  /\ ~ws.stopped
  /\ ws' = [ws EXCEPT !.stopped = TRUE]
  /\ IF dgStream = "set"
     THEN F_cleanupDeepgram(dg)
     ELSE UNCHANGED <<streamClosed, dg, triggers>>
  /\ UNCHANGED <<handler, paceVars, crashed, aaWs, received, lost, openedAt, sessVars,
                 dgVars, aaVars, trkVars, active, other, ready, waiting,
                 rejected, junk, now, lastSentTimestamp>>

\* 351-354: the transport's 'error' event; an 'error' event nobody listens to
\* is thrown by the emitter
F_WsError ==
  /\ Live("flag")
  /\ ws.readyState = "OPEN"
  /\ ws' = [ws EXCEPT !.readyState = "CLOSING"]
  /\ IF dgStream = "set"
     THEN F_cleanupDeepgram(dg) /\ UNCHANGED crashed
     ELSE crashed' = TRUE /\ UNCHANGED <<streamClosed, dg, triggers>>
  /\ UNCHANGED <<handler, paceVars, aaWs, received, lost, openedAt, sessVars,
                 dgVars, aaVars, trkVars, active, other, ready, waiting,
                 rejected, junk, now, lastSentTimestamp>>

\* 355-358: the transport's 'close' event
F_WsClose ==
  /\ Live("flag")
  /\ ws.readyState \in {"OPEN", "CLOSING"}
  /\ ws' = [ws EXCEPT !.readyState = "CLOSED"]
  /\ IF dgStream = "set"
     THEN F_cleanupDeepgram(dg)
     ELSE UNCHANGED <<streamClosed, dg, triggers>>
  /\ UNCHANGED <<handler, paceVars, crashed, aaWs, received, lost, openedAt, sessVars,
                 dgVars, aaVars, trkVars, active, other, ready, waiting,
                 rejected, junk, now, lastSentTimestamp>>

\* 315-318: the stream's 'error' event
F_DgError ==
  /\ Live("flag")
  /\ dgStream = "set"
  /\ dg.state \in {"open", "finishing"}
  /\ ~dg.errored
  /\ F_cleanupDeepgram([dg EXCEPT !.errored = TRUE])
  /\ UNCHANGED <<handler, paceVars, crashed, ws, aaWs, received, lost, openedAt, sessVars,
                 dgVars, aaVars, trkVars, active, other, ready, waiting,
                 rejected, junk, now, lastSentTimestamp>>

\* 319: the stream's 'close' event
F_DgClose ==
  /\ Live("flag")
  /\ dgStream = "set"
  /\ dg.state \in {"open", "finishing"}
  /\ F_cleanupDeepgram([dg EXCEPT !.state = "closed"])
  /\ UNCHANGED <<handler, paceVars, crashed, ws, aaWs, received, lost, openedAt, sessVars,
                 dgVars, aaVars, trkVars, active, other, ready, waiting,
                 rejected, junk, now, lastSentTimestamp>>

\* ------------------------------------------------------------------------
\* Frames the message callbacks have nothing to do for
\* ------------------------------------------------------------------------
\* a frame that is not JSON, a frame whose event is none the callback knows,
\* a media frame without media.payload
JunkKinds == {"badjson", "unknown", "nopayload"}

\* part_001 433-444: JSON.parse throws into the catch, which returns; an
\* unknown event and a media frame with no payload pass both ifs
S_Ignored(kind) ==
  /\ Live("session")
  /\ ws.readyState = "OPEN"
  /\ kind \in JunkKinds
  /\ junk' = junk + 1
  /\ UNCHANGED <<handler, paceVars, crashed, envVars, sessVars, dgVars, aaVars, trkVars,
                 active, other, ready, waiting, rejected, now,
                 lastSentTimestamp, streamClosed>>

\* server.js 116-139: JSON.parse throws into the catch, which returns; an
\* unknown event and a media frame with no payload pass both ifs
D_Ignored(kind) ==
  /\ Live("dg")
  /\ ws.readyState = "OPEN"
  /\ kind \in JunkKinds
  /\ junk' = junk + 1
  /\ UNCHANGED <<handler, paceVars, crashed, envVars, sessVars, dgVars, aaVars, trkVars,
                 active, other, ready, waiting, rejected, now,
                 lastSentTimestamp, streamClosed>>

\* server.js 319-328: JSON.parse (320) has no try around it and throws out
\* of the async callback; a media frame without payload goes to await ready
\* (322) and then throws at msg.media.payload (323); an unknown event
\* passes both ifs
R_Ignored(kind) ==
  /\ Live("rt")
  /\ ws.readyState = "OPEN"
  /\ kind \in JunkKinds
  /\ junk' = junk + 1
  /\ CASE kind = "unknown" -> UNCHANGED <<waiting, rejected, crashed>>
       [] kind = "badjson" -> Unhandled /\ UNCHANGED waiting
       [] kind = "nopayload" ->
            IF ready = "pending"
            THEN /\ waiting' = Append(waiting, Waiter(0, FALSE))
                 /\ UNCHANGED <<rejected, crashed>>
            ELSE Unhandled /\ UNCHANGED waiting
  /\ UNCHANGED <<handler, paceVars, envVars, sessVars, dgVars, aaVars, trkVars, active,
                 other, ready, now, lastSentTimestamp, streamClosed>>

\* ------------------------------------------------------------------------
\* The environment: which events arrive, and how many
\* ------------------------------------------------------------------------
AllSettled == \A i \in DOMAIN tasks : tasks[i].pc \in {"sent", "dropped"}

GenFails == Cardinality({i \in DOMAIN tasks : tasks[i].reply = "fallback"})

MediaArrives ==
  /\ received < MaxFrames
  /\ (S_Media \/ D_Media \/ A_Media \/ B_Media \/ R_Media \/ P_Media \/ T_Media
      \/ F_Media)

StopArrives ==
  S_Stop \/ D_Stop \/ A_Stop \/ B_Stop \/ R_Stop \/ P_Stop \/ F_Stop

TransportErrors ==
  \/ S_WsError \/ D_WsError \/ A_TwilioError \/ B_TwilioError \/ R_TwilioError
  \/ P_WsError \/ F_WsError

TransportCloses ==
  \/ S_WsClose \/ D_WsClose \/ A_TwilioClose \/ B_TwilioClose \/ R_TwilioClose
  \/ P_WsClose \/ F_WsClose

LiveSettles ==
  \/ S_LiveResolve \/ S_LiveReject \/ D_LiveResolve \/ D_LiveReject
  \/ R_ConnectResolve \/ R_ConnectReject
  \/ P_LiveResolve \/ P_LiveReject \/ F_LiveResolve \/ F_LiveReject

RecognitionOpens == A_AaOpen \/ B_AaOpen

RecognitionFails ==
  \/ S_DgError \/ S_DgClose \/ D_DgError \/ D_DgClose
  \/ R_TranscriberErrored \/ R_TranscriberClosed
  \/ P_DgError \/ P_DgClose \/ F_DgError \/ F_DgClose

\* lifecycle regime: every handler, with media frames, teardown triggers and
\* a few final utterances
FinalArrives ==
  \E T \in Words :
    \/ Len(tasks) < MaxFinals /\ S_Transcript(T, TRUE)
    \/ D_Transcript(T, TRUE)
    \/ Len(tasks) < MaxFinals /\ R_Final(T)
    \/ Len(tasks) < MaxFinals /\ P_Final(T)

GenSettles ==
  \E i \in DOMAIN tasks :
    \/ S_GenResolve(i) \/ S_GenReject(i) \/ R_GenResolve(i) \/ R_GenReject(i)
    \/ P_GenResolve(i) \/ P_GenReject(i)

TtsSettles ==
  \E i \in DOMAIN tasks :
    \/ S_TtsResolve(i) \/ S_TtsReject(i) \/ R_UpdateResolve(i) \/ R_UpdateReject(i)
    \/ P_TtsResolve(i) \/ P_TtsFail(i)

\* a chunk of a streamed synthesis arrives
ChunkArrives == \E i \in DOMAIN tasks : P_Chunk(i)

\* time passes, up to MaxTicks steps of the clock
ClockTicks == now < StartTime + MaxTicks * TickMs /\ T_Tick

Next ==
  \/ ClockTicks
  \/ LiveSettles
  \/ RecognitionOpens
  \/ AaClosed
  \/ AaErrored
  \/ RecognitionFails
  \/ MediaArrives
  \/ StopArrives
  \/ TransportErrors
  \/ TransportCloses
  \/ FinalArrives
  \/ GenSettles
  \/ TtsSettles
  \/ ChunkArrives
  \/ S_QueueTimer

Spec == Init /\ [][Next]_vars

\* the lifecycle regime with the scheduling the event loop gives: a pending
\* open, generation, synthesis or call update settles, and a timer that was
\* set fires; nothing makes the caller or the recognizer send anything
Fairness ==
  /\ WF_vars(LiveSettles)
  /\ WF_vars(GenSettles)
  /\ WF_vars(TtsSettles)
  /\ WF_vars(S_QueueTimer)

SpecFair == Init /\ [][Next]_vars /\ Fairness

\* concurrent-replies regime: the session handler, final utterances arriving
\* while earlier ones are still being answered
InitReplies == handler = "session" /\ InitState

ReplyFinalArrives ==
  \E T \in Words : Len(tasks) < MaxReplies /\ S_Transcript(T, TRUE)

NextReplies ==
  \/ S_LiveResolve
  \/ ReplyFinalArrives
  \/ GenSettles
  \/ TtsSettles
  \/ S_QueueTimer

SpecReplies == InitReplies /\ [][NextReplies]_vars

\* the concurrent-replies regime under the event loop's scheduling: a call
\* that settles and a timer that is set do run
SpecRepliesFair == InitReplies /\ [][NextReplies]_vars /\ Fairness

\* sequential regime: one long call of the session handler, each final
\* utterance arriving after the previous reply has been sent or dropped
InitHistory == handler = "session" /\ InitState

TurnArrives ==
  \E T \in Words : Len(tasks) < MaxTurns /\ AllSettled /\ S_Transcript(T, TRUE)

TurnGenResolves == \E i \in DOMAIN tasks : S_GenResolve(i)

TurnGenRejects == \E i \in DOMAIN tasks : GenFails < MaxGenFails /\ S_GenReject(i)

TurnTtsResolves == \E i \in DOMAIN tasks : S_TtsResolve(i)

NextHistory ==
  \/ S_LiveResolve
  \/ TurnArrives
  \/ TurnGenResolves
  \/ TurnGenRejects
  \/ TurnTtsResolves
  \/ S_QueueTimer

SpecHistory == InitHistory /\ [][NextHistory]_vars

\* paced regime: the session handler with the clock running; a timer runs
\* its callback no earlier than DelayMs after it was set (setTimeout, 406-415)
InitPace == handler = "session" /\ InitState

PaceFinalArrives ==
  \E T \in Words : Len(tasks) < MaxPaceReplies /\ S_Transcript(T, TRUE)

PaceTimerFires ==
  /\ timers # {}
  /\ now >= NextTimer.at + DelayMs
  /\ S_QueueTimer

PaceClockTicks == now < StartTime + MaxPaceTicks * PaceTickMs /\ S_Tick

NextPace ==
  \/ S_LiveResolve
  \/ PaceFinalArrives
  \/ TurnGenResolves
  \/ TurnTtsResolves
  \/ PaceTimerFires
  \/ PaceClockTicks

SpecPace == InitPace /\ [][NextPace]_vars

\* streamed-replies regime: the streaming-synthesis handlers, final
\* utterances arriving while the replies to earlier ones are being streamed
InitChunks == handler \in {"stream", "throttle"} /\ InitState

ChunkFinalArrives ==
  \E T \in Words : Len(tasks) < MaxChunkFinals /\ P_Final(T)

ChunkGenSettles == \E i \in DOMAIN tasks : P_GenResolve(i) \/ P_GenReject(i)

ChunkTtsSettles == \E i \in DOMAIN tasks : P_TtsResolve(i) \/ P_TtsFail(i)

NextChunks ==
  \/ P_LiveResolve
  \/ ChunkFinalArrives
  \/ ChunkGenSettles
  \/ ChunkTtsSettles
  \/ ChunkArrives

SpecChunks == InitChunks /\ [][NextChunks]_vars

\* transcript regime: interim and final recognition events with varied text
InitDelta == handler \in {"session", "dg"} /\ InitState

EventArrives ==
  \E T \in Phrases, fin \in BOOLEAN :
    /\ uttDone \/ Len(heard) < MaxUttEvents
    /\ \/ /\ AllSettled
          /\ fin /\ T # EmptyStr => Len(tasks) < MaxDeltaFinals
          /\ S_Transcript(T, fin)
       \/ D_Transcript(T, fin)

NextDelta ==
  \/ S_LiveResolve
  \/ D_LiveResolve
  \/ EventArrives
  \/ TurnGenResolves
  \/ TurnTtsResolves
  \/ S_QueueTimer

SpecDelta == InitDelta /\ [][NextDelta]_vars

\* malformed-frames regime: the three message callbacks with a try or a
\* missing try around JSON.parse, with media frames and frames that carry
\* nothing to forward
InitFrames == handler \in {"session", "dg", "rt"} /\ InitState

FrameMediaArrives == received < MaxFrames /\ (S_Media \/ D_Media \/ R_Media)

JunkArrives ==
  \E kind \in JunkKinds :
    junk < MaxJunk /\ (S_Ignored(kind) \/ D_Ignored(kind) \/ R_Ignored(kind))

NextFrames ==
  \/ S_LiveResolve
  \/ D_LiveResolve
  \/ R_ConnectResolve
  \/ R_ConnectReject
  \/ FrameMediaArrives
  \/ JunkArrives
  \/ S_Stop
  \/ D_Stop
  \/ R_Stop

SpecFrames == InitFrames /\ [][NextFrames]_vars

\* two-connection regime: two connections of the session handler in one
\* process, their events interleaved; connection X carries a call (media
\* frames, final utterances and their replies), connection Y is opened,
\* fails and is torn down beside it
InitPair == handler = "session" /\ sessions = {"ws", "ws2"} /\ InitRest

PairMediaArrives == active = "X" /\ received < MaxPairFrames /\ S_Media

PairFinalArrives ==
  \E T \in Words :
    active = "X" /\ Len(tasks) < MaxPairFinals /\ S_Transcript(T, TRUE)

NextPair ==
  \/ Switch
  \/ S_LiveResolve
  \/ S_LiveReject
  \/ PairMediaArrives
  \/ PairFinalArrives
  \/ TurnGenResolves
  \/ TurnTtsResolves
  \/ S_QueueTimer
  \/ S_Stop
  \/ S_WsError
  \/ S_WsClose
  \/ S_DgError
  \/ S_DgClose

SpecPair == InitPair /\ [][NextPair]_vars

\* ------------------------------------------------------------------------
\* Claims
\* ------------------------------------------------------------------------
\* the stored last transcript of the running tracker
StoredLast ==
  IF handler = "session" THEN session.lastTranscript ELSE lastTranscript

\* the texts of the recognition events of the current utterance
Texts(h) == [k \in 1..Len(h) |-> h[k].text]

\* non-empty transcripts, each a prefix of the next
PrefixChain(ts) ==
  /\ \A k \in 1..Len(ts) : ts[k] # EmptyStr
  /\ \A k \in 1..Len(ts) - 1 : IsPrefix(ts[k], ts[k + 1])

\* C1: for two final utterances of one session whose generation and synthesis
\* both succeed, the reply of the one handled first is sent on the connection
\* before the reply of the other, whatever the completion order.
C1_RepliesSentInUtteranceOrder ==
  handler = "session" =>
    \A p, q \in DOMAIN ws.sent :
      (/\ p < q
       /\ tasks[ws.sent[p]].reply = "generated"
       /\ tasks[ws.sent[q]].reply = "generated") => ws.sent[p] < ws.sent[q]

\* C2: session.chatHistory never holds more than 40 turns.
C2_HistoryWithinCap ==
  handler = "session" => Len(session.chatHistory) <= HistoryCap

\* C3: the first element of session.chatHistory is the system turn in every
\* reachable state; only non-system turns are dropped.
C3_HistoryKeepsSystemTurn ==
  handler = "session" =>
    /\ session.chatHistory # << >>
    /\ Head(session.chatHistory) = SystemTurn

\* number of invocations of the release operation on the recognition handle
Releases == IF handler = "aa" THEN aaWs.closeCalls ELSE dg.finishCalls

\* the recognition handle the release operation is invoked on exists
HandleExists == handler = "aa" \/ (handler = "session" /\ session.dgStream = "set")

\* C4: after two or more teardown triggers on one session the release
\* operation on its recognition handle (dgStream.finish() in the session
\* handler, aaWs.close() in the AssemblyAI handler) has been invoked exactly once.
C4_ReleaseInvokedExactlyOnce ==
  (triggers >= 2 /\ HandleExists) => Releases = 1

\* C5: in the Deepgram handlers a media frame that arrives before
\* listen.live() has resolved raises no exception and is forwarded, in arrival
\* order, once the stream is ready: an open stream has been sent every frame
\* received so far.
C5_EarlyFramesReachTheStream ==
  handler \in {"session", "dg"} =>
    /\ ~crashed
    /\ dg.state = "open" => dg.recv = Upto(received)

\* the pre-readiness buffer of the running buffering handler
Buffered ==
  LET b == IF handler = "aa" THEN pendingAudio ELSE buffer
  IN [k \in 1..Len(b) |-> b[k].frame]

\* C6: in the buffering handlers the frames received before the recognition
\* socket's 'open' are kept in arrival order until then, are sent exactly
\* once and in arrival order when 'open' fires, ahead of every later frame;
\* with the socket open, the audio sent is the sequence of frames received.
C6_BufferedFramesFlushedInOrder ==
  handler \in {"aa", "buf"} =>
    /\ openedAt = -1 => (Audio(aaWs.sent) = << >> /\ Buffered = Upto(received))
    /\ openedAt >= 0 =>
         /\ Len(Audio(aaWs.sent)) >= openedAt
         /\ Audio(aaWs.sent) = Upto(Len(Audio(aaWs.sent)))
    /\ aaWs.readyState = "OPEN" =>
         (Audio(aaWs.sent) = Upto(received) /\ Buffered = << >>)

\* C6 witness: two frames were buffered, 'open' flushed them, a third frame
\* was forwarded directly after them.
C6_Witness ==
  /\ handler = "aa"
  /\ openedAt = 2
  /\ received = 3
  /\ Audio(aaWs.sent) = <<1, 2, 3>>

\* C7: in the Transcript handler of server.js, starting from lastTranscript =
\* '', for non-empty interim transcripts each a prefix of the next and ending
\* in a final transcript, the deltas concatenated equal the final transcript.
C7_DeltasRebuildFinal ==
  (/\ handler = "dg"
   /\ uttDone
   /\ startLast = EmptyStr
   /\ PrefixChain(Texts(heard))) =>
     /\ Len(deltas) = Len(heard)
     /\ Concat(deltas) = heard[Len(heard)].text

\* C7 witness: the chain "hel", "hello", "hello how", final "hello how are
\* you" has been handled by the server.js tracker.
C7_Witness ==
  /\ handler = "dg"
  /\ uttDone
  /\ startLast = EmptyStr
  /\ Texts(heard) = <<hel, hello, helloHow, helloHowAreYou>>
  /\ deltas = <<hel, <<"l", "o">>, <<" ", "h", "o", "w">>,
                <<" ", "a", "r", "e", " ", "y", "o", "u">>>>

\* C8: in the session variant the interim sequence "hel", "hello", "hello
\* how" and the final "hello how are you" yield the deltas "hel", "lo",
\* " how", " are you", whose concatenation equals the final text.
C8_ScenarioDeltas ==
  (/\ handler = "session"
   /\ uttDone
   /\ startLast = EmptyStr
   /\ Texts(heard) = <<hel, hello, helloHow, helloHowAreYou>>) =>
     /\ deltas = <<hel, <<"l", "o">>, <<" ", "h", "o", "w">>,
                   <<" ", "a", "r", "e", " ", "y", "o", "u">>>>
     /\ Concat(deltas) = helloHowAreYou

\* C9: in both trackers, when a non-empty transcript T arrives and the stored
\* last transcript is not a prefix of T, the delta is the full T, the stored
\* last transcript becomes T ('' if the event is final) and nothing is thrown.
C9_RevisedTranscriptGivesFullDelta ==
  [][trkVars' # trkVars =>
       LET e == heard'[Len(heard')]
       IN (e.text # EmptyStr /\ ~IsPrefix(StoredLast, e.text)) =>
            /\ deltas' # << >>
            /\ deltas'[Len(deltas')] = e.text
            /\ StoredLast' = IF e.final THEN EmptyStr ELSE e.text
            /\ ~crashed']_vars

\* C10: in both trackers, after a recognition event with is_final = true has
\* been handled, whatever its transcript, the stored last transcript is ''.
C10_FinalResetsStoredLast ==
  uttDone => StoredLast = EmptyStr

\* the elements of a sequence
SeqSet(s) == {s[k] : k \in DOMAIN s}

\* the replies whose callback is at the given position
TasksAt(pc) == {i \in DOMAIN tasks : tasks[i].pc = pc}

\* C12: in the session handler a reply whose synthesis failed is never sent
\* on the connection and never enters session.queue; the queue holds exactly
\* the synthesized replies still waiting, and the frames sent on the open
\* connection are exactly the replies whose send has run, each once: the
\* replies whose synthesis succeeded are not held back by the failed one.
C12_FailedSynthesisDropsOnlyItsReply ==
  handler = "session" =>
    /\ \A i \in TasksAt("dropped") :
         i \notin SeqSet(ws.sent) /\ i \notin SeqSet(session.queue)
    /\ SeqSet(session.queue) = TasksAt("queued")
    /\ Len(session.queue) = Cardinality(TasksAt("queued"))
    /\ SeqSet(ws.sent) \subseteq TasksAt("sent")
    /\ ws.readyState = "OPEN" => SeqSet(ws.sent) = TasksAt("sent")
    /\ Len(ws.sent) = Cardinality(SeqSet(ws.sent))

\* C12 witness: three replies, the synthesis of the second failed, the first
\* and the third have been sent and nothing else.
C12_Witness ==
  /\ handler = "session"
  /\ Len(tasks) = 3
  /\ tasks[2].pc = "dropped"
  /\ SeqSet(ws.sent) = {1, 3}
  /\ Len(ws.sent) = 2
  /\ session.queue = << >>

C13_TeardownClosesTheTransport ==
  (/\ handler \in {"session", "dg"}
   /\ triggers >= 1
   /\ ws.stopped \/ dg.errored \/ dg.state = "closed"
   /\ dg.finishCalls >= 1) => ws.readyState # "OPEN"

\* C15: in the session handler, once cleanup has run, no step that
\* completes a generation or a synthesis that was in flight, and no queue
\* timer, sends a frame on the connection, appends to session.queue or
\* appends a turn to session.chatHistory.
C15_ResultsDiscardedAfterCleanup ==
  [][(handler = "session" /\ triggers >= 1 /\ Len(tasks') = Len(tasks)) =>
       /\ ws'.sent = ws.sent
       /\ Len(session'.queue) <= Len(session.queue)
       /\ session'.chatHistory = session.chatHistory]_vars

\* C14: in the handlers of part_001 83-197 and part_003 62-207, the step
\* that handles a stop frame (the 'message' listener being registered)
\* calls dgStream.finish(): the stream is released by the stop frame itself,
\* not by a later transport close.
C14_StopFrameFinishesTheStream ==
  [][(/\ handler \in {"stream", "throttle"}
      /\ dgStream = "set"
      /\ ~ws.stopped
      /\ ws'.stopped) => dg'.finishCalls = dg.finishCalls + 1]_vars

\* C16: in the message callbacks of server.js 116-139, server.js 319-328 and
\* part_001 433-444, handling a frame that is not JSON, has an unknown event
\* or is a media frame without payload changes nothing: no session state, no
\* stream or connection, no suspended callback, no teardown trigger, and no
\* exception or promise rejection leaves the callback.
C16_MalformedFramesAreDropped ==
  [][junk' # junk =>
       UNCHANGED <<handler, paceVars, crashed, rejected, envVars, sessVars, dgVars, aaVars,
                   trkVars, ready, waiting>>]_vars

\* the key of the other connection in the sessions Map
OtherKey == IF active = "X" THEN "ws2" ELSE "ws"

\* C17: with two connections of the session handler, a step that handles an
\* event of one connection (media, transcript, completion of a generation or
\* a synthesis, queue timer, stop, close, error) leaves the session object,
\* the stream, the connection and the Transcript callbacks of the other
\* connection as they were, and leaves the other connection's entry in the
\* sessions Map as it was.
C17_SessionsShareNoState ==
  [][(handler = "session" /\ active' = active) =>
       /\ other' = other
       /\ (OtherKey \in sessions') = (OtherKey \in sessions)]_vars

\* C17 witness: connection X has answered a final utterance and has been
\* cleaned up after a stop frame, while connection Y has its stream and is
\* still in the sessions Map.
C17_Witness ==
  /\ handler = "session"
  /\ active = "X"
  /\ ws.stopped
  /\ ws.sent = <<1>>
  /\ sessions = {"ws2"}
  /\ other.session.dgStream = "set"
  /\ other.triggers = 0

\* the teardown flag of the running flag-guarded handler
Flag == IF handler = "dg" THEN closed ELSE streamClosed

\* C18: in the flag-guarded handlers (cleanup of server.js, cleanupDeepgram
\* of part_003), whatever triggers arrive and however many, the flag never
\* goes back from true to false, dgStream.finish() is called only in the
\* step that sets the flag, and so at most once per connection.
C18_FlagSetOnceFinishOnce ==
  [][(handler \in {"dg", "flag"}) =>
       /\ Flag => Flag'
       /\ dg'.finishCalls <= 1
       /\ dg'.finishCalls # dg.finishCalls =>
            (~Flag /\ Flag' /\ dg'.finishCalls = dg.finishCalls + 1)]_vars

\* C18 witness: three triggers have run the flag-guarded cleanup and the
\* stream has been finished once.
C18_Witness ==
  /\ handler \in {"dg", "flag"}
  /\ triggers >= 3
  /\ Flag
  /\ dg.finishCalls = 1

\* C19: in the Deepgram handlers of part_001 and server.js, whenever the
\* transport connection has closed, be it while listen.live() is pending,
\* the recognition stream is eventually not open and not pending any more:
\* it has been finished, or has failed or closed.
C19_ClosedTransportFinishesTheStream ==
  (handler \in {"session", "dg"} /\ ws.readyState = "CLOSED")
    ~> (dg.state \notin {"pending", "open"})

\* C20: in the session handler, a step that handles one of the five
\* triggers (a stop frame, the transport's close or error, the stream's
\* Close or Error) leaves the connection absent from the sessions Map, and a
\* connection that is absent is never added again.
C20_TriggersRemoveTheSession ==
  [][(handler = "session" /\ active' = active) =>
       /\ (\/ ws'.stopped # ws.stopped
           \/ ws'.readyState # ws.readyState
           \/ dg'.errored # dg.errored
           \/ (dg'.state = "closed" /\ dg.state # "closed")) =>
              Key \notin sessions'
       /\ Key \notin sessions => Key \notin sessions']_vars

\* C20 witness: a stop frame and then the transport's close have run
\* cleanup, a final utterance was answered in between, and the connection
\* is absent from the sessions Map.
C20_Witness ==
  /\ handler = "session"
  /\ ws.stopped
  /\ ws.readyState = "CLOSED"
  /\ triggers >= 2
  /\ Len(tasks) = 1
  /\ sessions = {}

\* C21: in the AssemblyAI handlers, once the recognition socket has emitted
\* 'error' or 'close' the session is torn down: the transport connection is
\* not open any more, so no further media frame is accepted for the call.
C21_RecognitionFailureEndsTheCall ==
  (handler \in {"aa", "buf"} /\ (aaWs.errored \/ aaWs.readyState = "CLOSED"))
    => ws.readyState # "OPEN"

\* C24: in the AssemblyAI handler of server.js, pendingAudio holds frames
\* only while the recognition socket has not yet opened: once 'open' has
\* flushed it, it stays empty for the rest of the session.
C24_PendingAudioDrainedOnce ==
  (handler = "aa" /\ openedAt >= 0) => pendingAudio = << >>

\* a cap on the pre-readiness buffer: any number smaller than the number of
\* frames a call delivers before the recognition socket opens
BufferCap == MaxFrames - 1

\* C25: in the buffering handlers the number of frames held in the
\* pre-readiness buffer never exceeds the cap, however many media frames
\* arrive before the recognition socket opens.
C25_BufferWithinCap ==
  handler \in {"aa", "buf"} =>
    (Len(pendingAudio) <= BufferCap /\ Len(buffer) <= BufferCap)

\* the frames of the media callbacks suspended at await ready, in the order
\* the callbacks were suspended
Awaiting ==
  LET good == SelectSeq(waiting, LAMBDA w : w.payload)
  IN [k \in 1..Len(good) |-> good[k].frame]

\* C26: in the RealtimeService handler, while connect() is pending no frame
\* has been passed to sendAudio and the suspended callbacks hold the frames
\* received, in arrival order; once connect() has resolved, those frames
\* have been passed to sendAudio exactly once and in arrival order, ahead of
\* every later frame, and with the transcriber open the audio passed on is
\* the sequence of frames received.
C26_AwaitedFramesForwardedInOrder ==
  handler = "rt" =>
    /\ ready = "pending" =>
         (Audio(aaWs.sent) = << >> /\ Awaiting = Upto(received))
    /\ ready = "resolved" =>
         /\ waiting = << >>
         /\ Len(Audio(aaWs.sent)) >= openedAt
         /\ Audio(aaWs.sent) = Upto(Len(Audio(aaWs.sent)))
    /\ (ready = "resolved" /\ aaWs.readyState = "OPEN") =>
         Audio(aaWs.sent) = Upto(received)

\* C26 witness: two media callbacks were suspended at await ready, connect()
\* resolved and resumed them, and a third frame was forwarded after them.
C26_Witness ==
  /\ handler = "rt"
  /\ ready = "resolved"
  /\ openedAt = 2
  /\ received = 3
  /\ Audio(aaWs.sent) = <<1, 2, 3>>

\* C27: no audio is handed to a recognition handle that has been released:
\* in the Deepgram handler of server.js no step calls dgStream.send on a
\* stream that was finished or has closed, and in the RealtimeService
\* handler no step calls transcriber.sendAudio once transcriber.close() has
\* been called.
C27_NoAudioAfterRelease ==
  [][/\ (handler = "dg") => dg'.late = dg.late
     /\ (handler = "rt" /\ aaWs.closeCalls >= 1 /\ ready = "resolved") =>
          received' = received]_vars

\* C29: in the session handler, a step that handles a Transcript event
\* issues exactly one generation request when the event is final and its
\* transcript is non-empty, with the user turn of that utterance already
\* the newest turn of chatHistory, and issues none when the event is interim
\* or its transcript is empty.
C29_GenerationOnlyOnFinals ==
  [][(handler = "session"
        /\ (trkVars' # trkVars \/ Len(tasks') # Len(tasks))) =>
       LET e == heard'[Len(heard')]
           h == session'.chatHistory
       IN IF e.final /\ e.text # EmptyStr
          THEN /\ Len(tasks') = Len(tasks) + 1
               /\ tasks'[Len(tasks')].pc = "gen"
               /\ h[Len(h)] = [role |-> "user", utt |-> Len(tasks')]
          ELSE tasks' = tasks /\ session'.chatHistory = session.chatHistory]_vars

\* C29 witness: an utterance was heard as an interim event and then as a
\* final one, and one generation request is in flight for it.
C29_Witness ==
  /\ handler = "session"
  /\ Len(heard) >= 2
  /\ ~heard[1].final
  /\ uttDone
  /\ Len(tasks) = 1
  /\ tasks[1].pc = "gen"

\* C30: in the session handler, chatHistory is a well-formed dialogue: the
\* system turn leads, after it user and assistant turns strictly alternate
\* starting with a user turn, and each assistant turn directly follows the
\* user turn of the utterance it answers.
C30_HistoryAlternates ==
  handler = "session" =>
    LET h == session.chatHistory
    IN /\ h[1].role = "system"
       /\ \A k \in 2..Len(h) :
            /\ h[k].role = (IF k % 2 = 0 THEN "user" ELSE "assistant")
            /\ h[k].role = "assistant" => h[k].utt = h[k - 1].utt

\* the frames of session.queue whose send has run, in the order it ran
QueueSent == SubSeq(chain.appended, 1, Len(chain.sentAt))

\* C22: in the session handler the sends chained on session.queue run one
\* at a time and in the order they were appended: at most one delay timer
\* is set at any time, it is the timer of the first frame not yet sent, and
\* it was set no earlier than the preceding frame was sent; the frames
\* sent are a prefix of the frames appended, and two consecutive sends are
\* at least one full delay apart.
C22_QueuedSendsAreSerialized ==
  handler = "session" =>
    /\ Cardinality(timers) <= 1
    /\ Len(chain.sentAt) <= Len(chain.appended)
    /\ session.queue =
         SubSeq(chain.appended, Len(chain.sentAt) + 1, Len(chain.appended))
    /\ ws.sent = QueueSent
    /\ session.queue # << >> => timers # {}
    /\ \A t \in timers :
         /\ session.queue # << >> /\ t.utt = Head(session.queue)
         /\ chain.sentAt # << >> => t.at >= chain.sentAt[Len(chain.sentAt)]
    /\ \A k \in 1..(Len(chain.sentAt) - 1) :
         chain.sentAt[k + 1] - chain.sentAt[k] >= DelayMs

\* C22 witness: the second reply was appended to the queue before the first
\* one was sent, and both have been sent, one full delay apart.
C22_Witness ==
  /\ handler = "session"
  /\ Len(chain.sentAt) = 2
  /\ chain.sentAt[2] - chain.sentAt[1] = DelayMs
  /\ ws.sent = chain.appended

\* the number of outbound frames of reply i sent on the connection
FramesOf(i) == Cardinality({k \in DOMAIN ws.sent : ws.sent[k] = i})

\* C23: in the session handler, under fair scheduling of callbacks and
\* timers, every final utterance is eventually either dropped by a failed
\* synthesis or answered by exactly one outbound frame on the connection,
\* so a reply whose synthesis succeeded never stays queued behind another;
\* and no reply ever has more than the one frame.
C23_QueuedRepliesAreEventuallySent ==
  /\ \A i \in 1..MaxReplies :
       (handler = "session" /\ i \in DOMAIN tasks)
         ~> (i \in DOMAIN tasks /\
               \/ tasks[i].pc = "dropped"
               \/ (tasks[i].pc = "sent" /\ FramesOf(i) = 1))
  /\ [](handler = "session" =>
          \A i \in DOMAIN tasks :
            FramesOf(i) = (IF tasks[i].pc = "sent" THEN 1 ELSE 0))

\* C23 witness: the first reply has been sent, and the replies of two later
\* utterances are queued, one behind the other.
C23_Witness ==
  /\ handler = "session"
  /\ Len(tasks) >= 3
  /\ tasks[1].pc = "sent"
  /\ FramesOf(1) = 1
  /\ Len(session.queue) = 2

\* C28: in the streaming-synthesis handlers the chunks sent on the
\* connection are grouped by reply and the replies come in utterance order:
\* every chunk of an earlier utterance's reply is sent before any chunk of
\* a later utterance's reply, so chunks of two replies never interleave.
C28_ChunksOfRepliesDoNotInterleave ==
  handler \in {"stream", "throttle"} =>
    \A p, q \in DOMAIN ws.sent : p < q => ws.sent[p].utt <= ws.sent[q].utt

C32_ConfigFrameIsSentFirst ==
  (handler \in {"aa", "buf"} /\ aaWs.sent # << >>) =>
    /\ aaWs.sent[1] = ConfigFrame
    /\ \A k \in 2..Len(aaWs.sent) : aaWs.sent[k].kind = "audio"

\* C32 witness: two frames arrived before 'open' and one after it, and the
\* socket was sent the configuration frame and then the three frames.
C32_Witness ==
  /\ handler = "buf"
  /\ openedAt = 2
  /\ received = 3
  /\ aaWs.sent = <<ConfigFrame, AudioFrame(1), AudioFrame(2), AudioFrame(3)>>

====
